---- MODULE Spec2Model ----
(***************************************************************************)
(* A model of the social-posting backend of src/index.js: an Express       *)
(* application whose handlers read and rewrite two JSON files (users.json  *)
(* and posts.json), hash passwords with bcrypt and sign session tokens     *)
(* with jsonwebtoken.                                                      *)
(*                                                                         *)
(* Node runs every handler to completion on one thread; a handler gives up *)
(* the thread only at an `await`.  handleSignUp and handleLogin each hold  *)
(* one await (bcrypt.hash, bcrypt.compare), so each is two steps: the call *)
(* up to the await, and the resumption after it.  Every other handler is   *)
(* synchronous and is one step.                                            *)
(***************************************************************************)
EXTENDS Integers, Sequences, FiniteSets, Bags, TLC

VARIABLES
    usersDb,    \* the array stored in users.json (<<>> while the file is absent)
    postsDb,    \* the array stored in posts.json (<<>> while the file is absent)
    now,        \* the wall clock, in seconds, as jsonwebtoken reads it
    inflight,   \* bag of async handlers suspended at their await
    pending,    \* bag of /createPost requests received and not yet dispatched
    completed,  \* the /createPost requests dispatched from pending, with their responses
    registered, \* history: the username and password of the register call that wrote last
    req,        \* the request the last step worked on
    res,        \* the response the last step sent (status 0: none yet, the handler awaits)
    fsOps       \* the readDatabase / writeDatabase calls the last step made

vars == <<usersDb, postsDb, now, inflight, pending, completed, registered, req, res, fsOps>>

----------------------------------------------------------------------------
(* Bounds of the model *)

MaxInflight == 2
MaxPosts == 2
MaxTicks == 1
MaxPending == 2

Usernames == {"alice", "bob"}
Contents == {"hi", "yo"}
Salts == {"s1", "s2"}

----------------------------------------------------------------------------
(* Program constants *)

SECRET_KEY == "your_secret_key"
USERS_DB_PATH == "users.json"
POSTS_DB_PATH == "posts.json"
SALT_ROUNDS == 10
ExpiresIn == 3600
\* bcrypt reads the first 72 bytes of a password and no more.
BCRYPT_MAX_BYTES == 72

\* The clock is read at steps of half a token lifetime.
TickStep == ExpiresIn \div 2

----------------------------------------------------------------------------
(* Passwords *)

\* Passwords are byte strings: a short one, and two that are one byte longer
\* than bcrypt reads and differ in that last byte only.
Pw == <<"p", "w">>
LongX == [i \in 1..(BCRYPT_MAX_BYTES + 1) |-> IF i <= BCRYPT_MAX_BYTES THEN "a" ELSE "X"]
LongY == [i \in 1..(BCRYPT_MAX_BYTES + 1) |-> IF i <= BCRYPT_MAX_BYTES THEN "a" ELSE "Y"]
Passwords == {Pw, LongX, LongY}
\* The passwords users register with; a login may try any of Passwords.
RegisterPasswords == {LongX}

----------------------------------------------------------------------------
(* File system *)

\* A call of readDatabase or writeDatabase, with the array it returned or wrote.
ReadOp(filePath, data) == [op |-> "read", path |-> filePath, data |-> data]
WriteOp(filePath, data) == [op |-> "write", path |-> filePath, data |-> data]

\* A variant that answers from a copy of the file taken when the server
\* started, before any post was written.
readDatabase_Stale(filePath) ==
    IF filePath = USERS_DB_PATH THEN usersDb ELSE << >>

\* readDatabase: the stored array, or [] when the file does not exist.
readDatabase(filePath) ==
    IF filePath = USERS_DB_PATH THEN usersDb ELSE postsDb

----------------------------------------------------------------------------
(* bcrypt *)

KeyBytes(password) ==
    SubSeq(password, 1, IF Len(password) < BCRYPT_MAX_BYTES
                        THEN Len(password) ELSE BCRYPT_MAX_BYTES)

\* bcrypt.hash(password, 10): a hash string carrying the salt it was made
\* with; the digest depends on the salt and on the first 72 bytes of the
\* password.
Hash(salt, password) ==
    [rounds |-> SALT_ROUNDS, salt |-> salt, digest |-> <<salt, KeyBytes(password)>>]

\* bcrypt.compare(password, hash): hashes the password again with the salt
\* stored in the hash and compares.
Compare(password, hash) ==
    Hash(hash.salt, password) = hash

----------------------------------------------------------------------------
(* jsonwebtoken *)

\* A word of an Authorization header, after split(' ').
EmptyWord == [kind |-> "empty", username |-> "", exp |-> 0, sig |-> ""]
TextWord == [kind |-> "text", username |-> "", exp |-> 0, sig |-> ""]
Jwt(username, exp, sig) ==
    [kind |-> "jwt", username |-> username, exp |-> exp, sig |-> sig]

\* jwt.sign({ username }, SECRET_KEY, { expiresIn: '1h' })
Sign(username, key, t) == Jwt(username, t + ExpiresIn, key)

\* A variant that verifies with ignoreExpiration.
JwtVerifies_NoExpiry(token, key, t) ==
    /\ token.kind = "jwt"
    /\ token.sig = key

\* jwt.verify(token, SECRET_KEY, cb): err for a malformed token, a signature
\* made with another key, or an expired token (clock >= exp).
JwtVerifies(token, key, t) ==
    /\ token.kind = "jwt"
    /\ token.sig = key
    /\ t < token.exp

----------------------------------------------------------------------------
(* Requests and responses *)

NoHeader == << >>

Req(route, step, authorization, username, password, content, postId) ==
    [route |-> route, step |-> step, authorization |-> authorization,
     username |-> username, password |-> password, content |-> content,
     postId |-> postId]

NoPassword == << >>

NoReq == Req("", "", NoHeader, "", NoPassword, "", -1)

Res(status, message, token, data) ==
    [status |-> status, message |-> message, token |-> token, data |-> data]

NoRes == Res(0, "", << >>, << >>)

\* res.sendStatus(code)
SendStatus(code) ==
    Res(code, IF code = 401 THEN "Unauthorized" ELSE "Forbidden", << >>, << >>)

\* res.send(text)
Send(text) == Res(200, text, << >>, << >>)

\* res.status(code).json({ message })
JsonMessage(code, message) == Res(code, message, << >>, << >>)

\* res.status(code).json(data)
JsonData(code, data) == Res(code, "", << >>, data)

----------------------------------------------------------------------------
(* users.find(user => user.username === username): the first match, if any *)

FindUser(users, username) ==
    LET idx == {i \in 1..Len(users) : users[i].username = username}
    IN  IF idx = {} THEN << >>
        ELSE <<users[CHOOSE i \in idx : \A j \in idx : i <= j]>>

----------------------------------------------------------------------------
(* handleSignUp *)

\* What a suspended handler keeps across its await: the request's fields and
\* the local array (handleSignUp: users; handleLogin: the user found, if any).
Continuation(kind, username, password, users) ==
    [kind |-> kind, username |-> username, password |-> password, users |-> users]

\* A variant whose duplicate branch lacks its return: the 400 is sent and the
\* handler goes on to bcrypt.hash all the same.
handleSignUpCall_NoReturn(users, username, password) ==
    IF FindUser(users, username) # << >>
    THEN [awaits |-> TRUE, res |-> JsonMessage(400, "User already exists")]
    ELSE [awaits |-> TRUE, res |-> NoRes]

\* Up to the await: the duplicate check on the collection just read.
\* awaits: TRUE when the handler goes on to bcrypt.hash.
handleSignUpCall(users, username, password) ==
    IF FindUser(users, username) # << >>
    THEN [awaits |-> FALSE, res |-> JsonMessage(400, "User already exists")]
    ELSE [awaits |-> TRUE, res |-> NoRes]

\* A variant that reads users.json again after the await and pushes onto that,
\* without repeating the duplicate check.
handleSignUpResume_Reread(c, salt) ==
    [users |-> Append(usersDb, [username |-> c.username,
                                 password |-> Hash(salt, c.password)]),
     res |-> JsonMessage(201, "User registered successfully")]

\* After the await: push onto the array read before it, and write that array.
handleSignUpResume(c, salt) ==
    [users |-> Append(c.users, [username |-> c.username,
                                 password |-> Hash(salt, c.password)]),
     res |-> JsonMessage(201, "User registered successfully")]

SignUpCall ==
    \E username \in Usernames, password \in RegisterPasswords :
        LET users == readDatabase(USERS_DB_PATH)
            r == handleSignUpCall(users, username, password)
        IN  /\ r.awaits => BagCardinality(inflight) < MaxInflight
            /\ req' = Req("/register", "call", NoHeader, username, password, "", -1)
            /\ res' = r.res
            /\ fsOps' = <<ReadOp(USERS_DB_PATH, users)>>
            /\ inflight' = IF r.awaits
                           THEN inflight (+) SetToBag({Continuation("signup", username, password, users)})
                           ELSE inflight
            /\ UNCHANGED <<usersDb, postsDb, now, pending, completed, registered>>

SignUpResume ==
    \E c \in BagToSet(inflight), salt \in Salts :
        LET r == handleSignUpResume(c, salt)
        IN  /\ c.kind = "signup"
            /\ inflight' = inflight (-) SetToBag({c})
            /\ usersDb' = r.users
            /\ req' = Req("/register", "resume", NoHeader, c.username, c.password, "", -1)
            /\ res' = r.res
            /\ fsOps' = <<WriteOp(USERS_DB_PATH, r.users)>>
            /\ registered' = [username |-> c.username, password |-> c.password]
            /\ UNCHANGED <<postsDb, now, pending, completed>>

----------------------------------------------------------------------------
(* handleLogin *)

InvalidCredentials == JsonMessage(401, "Invalid credentials")

\* Up to the await: !user short-circuits, and bcrypt.compare is awaited only
\* for a user that was found.
handleLoginCall(users, username, password) ==
    IF FindUser(users, username) = << >>
    THEN [awaits |-> FALSE, res |-> InvalidCredentials]
    ELSE [awaits |-> TRUE, res |-> NoRes]

\* After the await: the outcome of bcrypt.compare against the record found
\* before it, then jwt.sign.
handleLoginResume(c, t) ==
    LET user == c.users[1]
    IN  IF ~Compare(c.password, user.password)
        THEN InvalidCredentials
        ELSE Res(200, "", <<Sign(c.username, SECRET_KEY, t)>>, << >>)

LoginCall ==
    \E username \in Usernames, password \in Passwords :
        LET users == readDatabase(USERS_DB_PATH)
            r == handleLoginCall(users, username, password)
        IN  /\ r.awaits => BagCardinality(inflight) < MaxInflight
            /\ req' = Req("/login", "call", NoHeader, username, password, "", -1)
            /\ res' = r.res
            /\ fsOps' = <<ReadOp(USERS_DB_PATH, users)>>
            /\ inflight' = IF r.awaits
                           THEN inflight (+) SetToBag({Continuation("login", username, password, FindUser(users, username))})
                           ELSE inflight
            /\ UNCHANGED <<usersDb, postsDb, now, pending, completed, registered>>

LoginResume ==
    \E c \in BagToSet(inflight) :
        /\ c.kind = "login"
        /\ inflight' = inflight (-) SetToBag({c})
        /\ req' = Req("/login", "resume", NoHeader, c.username, c.password, "", -1)
        /\ res' = handleLoginResume(c, now)
        /\ fsOps' = << >>
        /\ UNCHANGED <<usersDb, postsDb, now, pending, completed, registered>>

----------------------------------------------------------------------------
(* verifyUser *)

\* req.headers['authorization']?.split(' ')[1]: the second word of the header,
\* undefined when the header is absent or has a single word.
BearerToken(authorization) ==
    IF Len(authorization) >= 2 THEN <<authorization[2]>> ELSE << >>

\* next: TRUE when the middleware calls next(); username: what it attaches to
\* the request as req.username.
verifyUser(authorization, t) ==
    LET token == BearerToken(authorization)
    IN  IF token = << >> \/ token[1].kind = "empty"
        THEN [next |-> FALSE, res |-> SendStatus(401), username |-> ""]
        ELSE IF ~JwtVerifies(token[1], SECRET_KEY, t)
        THEN [next |-> FALSE, res |-> SendStatus(403), username |-> ""]
        ELSE [next |-> TRUE, res |-> NoRes, username |-> token[1].username]

\* The Authorization headers a client sends: none, a scheme alone, a scheme and
\* text that is no token, a scheme and a token, a token without a scheme, and a
\* token after two spaces (split(' ') then yields an empty second word).  A
\* token signed with SECRET_KEY is one /login gave alice or bob, half an hour
\* ago or just now; the token signed with another key is one an attacker
\* makes for a user.
TokenExps == {TickStep, ExpiresIn}
SignedJwts == {Jwt(u, e, SECRET_KEY) : u \in Usernames, e \in TokenExps}
ForgedJwt == Jwt("alice", ExpiresIn, "another_key")
Headers ==
    {NoHeader, <<TextWord>>, <<TextWord, TextWord>>, <<TextWord, ForgedJwt>>}
    \cup {<<TextWord, j>> : j \in SignedJwts}
    \cup {<<Jwt("alice", ExpiresIn, SECRET_KEY)>>,
          <<TextWord, EmptyWord, Jwt("alice", ExpiresIn, SECRET_KEY)>>}

----------------------------------------------------------------------------
(* Route handlers behind verifyUser, and fetchAllPosts *)

fetchAllAccounts(users) ==
    [res |-> JsonData(200, users), fsOps |-> <<ReadOp(USERS_DB_PATH, users)>>]

\* A variant that numbers a post one above the largest id in the collection.
handleCreatePost_MaxId(posts, username, content) ==
    LET ids == {posts[i].id : i \in 1..Len(posts)}
        top == IF ids = {} THEN 0 ELSE CHOOSE m \in ids : \A k \in ids : k <= m
        newPost == [id |-> top + 1, username |-> username, content |-> content]
        pushed == Append(posts, newPost)
    IN  [posts |-> pushed,
         res |-> JsonData(201, <<newPost>>),
         fsOps |-> <<ReadOp(POSTS_DB_PATH, posts), WriteOp(POSTS_DB_PATH, pushed)>>]

handleCreatePost(posts, username, content) ==
    LET newPost == [id |-> Len(posts) + 1, username |-> username, content |-> content]
        pushed == Append(posts, newPost)
    IN  [posts |-> pushed,
         res |-> JsonData(201, <<newPost>>),
         fsOps |-> <<ReadOp(POSTS_DB_PATH, posts), WriteOp(POSTS_DB_PATH, pushed)>>]

fetchAllPosts(posts) ==
    [res |-> JsonData(200, posts), fsOps |-> <<ReadOp(POSTS_DB_PATH, posts)>>]

fetchUserPosts(posts, username) ==
    [res |-> JsonData(200, SelectSeq(posts, LAMBDA post : post.username = username)),
     fsOps |-> <<ReadOp(POSTS_DB_PATH, posts)>>]

\* A variant that takes postId for a position in the array: splice(postId - 1, 1).
handleRemovePost_ByIndex(posts, username, postId) ==
    LET updatedPosts == IF postId \in 1..Len(posts)
                        THEN SubSeq(posts, 1, postId - 1) \o SubSeq(posts, postId + 1, Len(posts))
                        ELSE posts
    IN  [posts |-> updatedPosts,
         res |-> Send("Post removed"),
         fsOps |-> <<ReadOp(POSTS_DB_PATH, posts), WriteOp(POSTS_DB_PATH, updatedPosts)>>]

\* A variant that removes a post only for the user who wrote it.
handleRemovePost_OwnerOnly(posts, username, postId) ==
    LET updatedPosts == SelectSeq(posts, LAMBDA post : post.id # postId \/ post.username # username)
    IN  [posts |-> updatedPosts,
         res |-> Send("Post removed"),
         fsOps |-> <<ReadOp(POSTS_DB_PATH, posts), WriteOp(POSTS_DB_PATH, updatedPosts)>>]

\* posts.filter(post => post.id !== postId); req.username is not consulted.
handleRemovePost(posts, username, postId) ==
    LET updatedPosts == SelectSeq(posts, LAMBDA post : post.id # postId)
    IN  [posts |-> updatedPosts,
         res |-> Send("Post removed"),
         fsOps |-> <<ReadOp(POSTS_DB_PATH, posts), WriteOp(POSTS_DB_PATH, updatedPosts)>>]

\* handleRequest, fetchPendingRequests, handleAcceptRequest, handlePrivacySettings,
\* handleLikePost, handleAddComment: each sends a fixed text.
PlaceholderRoutes ==
    {"/request", "/pendingRequests", "/acceptRequest", "/updatePrivacySettings",
     "/likePost", "/addComment"}

PlaceholderText(route) ==
    CASE route = "/request" -> "Request handled"
      [] route = "/pendingRequests" -> "Pending requests fetched"
      [] route = "/acceptRequest" -> "Request accepted"
      [] route = "/updatePrivacySettings" -> "Privacy settings updated"
      [] route = "/likePost" -> "Post liked"
      [] route = "/addComment" -> "Comment added"

handlePlaceholder(route) ==
    [res |-> Send(PlaceholderText(route)), fsOps |-> << >>]

\* The routes registered with verifyUser in front of their handler.
AuthRoutes ==
    {"/accounts", "/createPost", "/userPosts", "/removePost"} \cup PlaceholderRoutes

PostIds == 0..MaxPosts

----------------------------------------------------------------------------
(* Routes *)

Accounts ==
    \E authorization \in Headers :
        LET v == verifyUser(authorization, now)
            h == fetchAllAccounts(readDatabase(USERS_DB_PATH))
        IN  /\ req' = Req("/accounts", "call", authorization, v.username, NoPassword, "", -1)
            /\ res' = IF v.next THEN h.res ELSE v.res
            /\ fsOps' = IF v.next THEN h.fsOps ELSE << >>
            /\ UNCHANGED <<usersDb, postsDb, now, inflight, pending, completed, registered>>

Placeholder ==
    \E route \in PlaceholderRoutes, authorization \in Headers :
        LET v == verifyUser(authorization, now)
            h == handlePlaceholder(route)
        IN  /\ req' = Req(route, "call", authorization, v.username, NoPassword, "", -1)
            /\ res' = IF v.next THEN h.res ELSE v.res
            /\ fsOps' = IF v.next THEN h.fsOps ELSE << >>
            /\ UNCHANGED <<usersDb, postsDb, now, inflight, pending, completed, registered>>

\* One dispatch of POST /createPost: verifyUser, then handleCreatePost, with no
\* await between the read of posts.json and its write.
CreatePostStep(authorization, content) ==
    LET v == verifyUser(authorization, now)
        h == handleCreatePost(readDatabase(POSTS_DB_PATH), v.username, content)
    IN  /\ Len(postsDb) < MaxPosts
        /\ req' = Req("/createPost", "call", authorization, v.username, NoPassword, content, -1)
        /\ res' = IF v.next THEN h.res ELSE v.res
        /\ fsOps' = IF v.next THEN h.fsOps ELSE << >>
        /\ postsDb' = IF v.next THEN h.posts ELSE postsDb
        /\ UNCHANGED <<usersDb, now, inflight, registered>>

CreatePost ==
    \E authorization \in Headers, content \in Contents :
        /\ CreatePostStep(authorization, content)
        /\ UNCHANGED <<pending, completed>>

Posts ==
    LET h == fetchAllPosts(readDatabase(POSTS_DB_PATH))
    IN  /\ req' = Req("/posts", "call", NoHeader, "", NoPassword, "", -1)
        /\ res' = h.res
        /\ fsOps' = h.fsOps
        /\ UNCHANGED <<usersDb, postsDb, now, inflight, pending, completed, registered>>

UserPosts ==
    \E authorization \in Headers :
        LET v == verifyUser(authorization, now)
            h == fetchUserPosts(readDatabase(POSTS_DB_PATH), v.username)
        IN  /\ req' = Req("/userPosts", "call", authorization, v.username, NoPassword, "", -1)
            /\ res' = IF v.next THEN h.res ELSE v.res
            /\ fsOps' = IF v.next THEN h.fsOps ELSE << >>
            /\ UNCHANGED <<usersDb, postsDb, now, inflight, pending, completed, registered>>

RemovePost ==
    \E authorization \in Headers, postId \in PostIds :
        LET v == verifyUser(authorization, now)
            h == handleRemovePost(readDatabase(POSTS_DB_PATH), v.username, postId)
        IN  /\ req' = Req("/removePost", "call", authorization, v.username, NoPassword, "", postId)
            /\ res' = IF v.next THEN h.res ELSE v.res
            /\ fsOps' = IF v.next THEN h.fsOps ELSE << >>
            /\ postsDb' = IF v.next THEN h.posts ELSE postsDb
            /\ UNCHANGED <<usersDb, now, inflight, pending, completed, registered>>

----------------------------------------------------------------------------
(* Simultaneous requests: several POST /createPost requests reach the server *)
(* before any of them is dispatched; the event loop then dispatches them one *)
(* at a time, in any order.                                                  *)

\* issuedAt: how many dispatches had completed when the request arrived.
Arrive ==
    \E authorization \in {<<TextWord, j>> : j \in SignedJwts}, content \in Contents :
        /\ BagCardinality(pending) < MaxPending
        /\ Len(postsDb) + BagCardinality(pending) < MaxPosts
        /\ pending' = pending (+) SetToBag({[authorization |-> authorization,
                                             content |-> content,
                                             issuedAt |-> Len(completed)]})
        /\ req' = NoReq
        /\ res' = NoRes
        /\ fsOps' = << >>
        /\ UNCHANGED <<usersDb, postsDb, now, inflight, completed, registered>>

Dispatch ==
    \E r \in BagToSet(pending) :
        /\ CreatePostStep(r.authorization, r.content)
        /\ pending' = pending (-) SetToBag({r})
        /\ completed' = Append(completed, [issuedAt |-> r.issuedAt, res |-> res'])

----------------------------------------------------------------------------
(* The clock *)

Tick ==
    /\ now + TickStep <= MaxTicks * TickStep
    /\ now' = now + TickStep
    /\ req' = NoReq
    /\ res' = NoRes
    /\ fsOps' = << >>
    /\ UNCHANGED <<usersDb, postsDb, inflight, pending, completed, registered>>

----------------------------------------------------------------------------
(* Specifications *)

\* Server start: neither file exists, nothing is in flight.
Init ==
    /\ usersDb = << >>
    /\ postsDb = << >>
    /\ now = 0
    /\ inflight = EmptyBag
    /\ pending = EmptyBag
    /\ completed = << >>
    /\ registered = [username |-> "", password |-> NoPassword]
    /\ req = NoReq
    /\ res = NoRes
    /\ fsOps = << >>

\* alice and bob have registered, one after the other, and have logged in (the
\* tokens of Headers are theirs); no post was written yet.
InitPosts ==
    /\ usersDb = <<[username |-> "alice", password |-> Hash("s1", Pw)],
                   [username |-> "bob", password |-> Hash("s2", Pw)]>>
    /\ postsDb = << >>
    /\ now = 0
    /\ inflight = EmptyBag
    /\ pending = EmptyBag
    /\ completed = << >>
    /\ registered = [username |-> "bob", password |-> Pw]
    /\ req = NoReq
    /\ res = NoRes
    /\ fsOps = << >>

\* /register and /login, whose handlers touch users.json only.
NextAccounts ==
    \/ SignUpCall
    \/ SignUpResume
    \/ LoginCall
    \/ LoginResume

SpecAccounts == Init /\ [][NextAccounts]_vars

\* The routes behind verifyUser and /posts; of these only /accounts reads
\* users.json, and none writes it.
NextPosts ==
    \/ Accounts
    \/ Placeholder
    \/ CreatePost
    \/ Posts
    \/ UserPosts
    \/ RemovePost
    \/ Tick

SpecPosts == InitPosts /\ [][NextPosts]_vars

\* /createPost requests that arrive together.
NextSimultaneous ==
    \/ Arrive
    \/ Dispatch

SpecSimultaneous == InitPosts /\ [][NextSimultaneous]_vars

\* Every route of the application.
Next ==
    \/ NextAccounts
    \/ NextPosts

Spec == Init /\ [][Next]_vars

----------------------------------------------------------------------------
(* Properties *)

\* The usernames of a user collection, and the ids of a post collection.
HasUsername(users, username) ==
    \E i \in 1..Len(users) : users[i].username = username

HasId(posts, id) ==
    \E i \in 1..Len(posts) : posts[i].id = id

\* The hashes bcrypt.compare accepts for a password: one for each salt.
HashedFrom(hash, password) ==
    \E salt \in Salts : hash = Hash(salt, password)

\* The token a request carries: the second word of its Authorization header,
\* when the header has one and it is not empty.
CarriesToken(r) ==
    /\ Len(r.authorization) >= 2
    /\ r.authorization[2].kind # "empty"

CarriedToken(r) == r.authorization[2]

\* The carried token passes signature and expiry verification at the time of
\* the request.
CarriesValidToken(r) ==
    /\ CarriesToken(r)
    /\ CarriedToken(r).kind = "jwt"
    /\ CarriedToken(r).sig = SECRET_KEY
    /\ CarriedToken(r).exp > now

Denied(r) == r.status \in {401, 403}

\* C1: a register call on a username that has a record in the collection it
\* reads is answered 400 'User already exists', writes nothing and leaves the
\* collection as it was; and no register call goes on to hash and write for a
\* username that the collection it read already held.
C1_RegisterExistingFails ==
    /\ (req.route = "/register" /\ req.step = "call"
            /\ HasUsername(fsOps[1].data, req.username))
        => /\ res.status = 400
           /\ res.message = "User already exists"
           /\ Len(fsOps) = 1 /\ fsOps[1].op = "read"
           /\ usersDb = fsOps[1].data
           /\ Len(usersDb) = Len(fsOps[1].data)
    /\ \A c \in BagToSet(inflight) :
           c.kind = "signup" => ~HasUsername(c.users, c.username)

C1_Witness ==
    /\ req.route = "/register" /\ req.step = "call"
    /\ HasUsername(fsOps[1].data, req.username)
    /\ res.status = 400
    /\ Len(usersDb) = 2

\* C2: no two records of the post collection have the same id.
C2_PostIdsUnique ==
    \A i, j \in 1..Len(postsDb) : i # j => postsDb[i].id # postsDb[j].id

\* C3: no two records of the user collection have the same username, whatever
\* the interleaving of register calls around their password-hash await.
C3_UsernamesUnique ==
    \A i, j \in 1..Len(usersDb) : i # j => usersDb[i].username # usersDb[j].username

\* Two register calls for one username both passed the duplicate check on the
\* same collection; one has written its record, the other is still at its await.
C3_Witness ==
    /\ req.route = "/register" /\ req.step = "resume" /\ res.status = 201
    /\ HasUsername(usersDb, req.username)
    /\ \E c \in BagToSet(inflight) :
           /\ c.kind = "signup"
           /\ c.username = req.username
           /\ ~HasUsername(c.users, c.username)

\* C4: a user record, once in the user collection, is in it after every step,
\* with the same username and password hash.
C4_UserRecordsPersist ==
    [][\A i \in 1..Len(usersDb) :
           \E j \in 1..Len(usersDb') : usersDb'[j] = usersDb[i]]_vars

\* C5: removePost with id k leaves, of the collection it read, the records
\* whose id is not k, each unchanged and in the same order, and nothing else;
\* one record goes when one record has id k, none when none has, and the
\* answer is 200 'Post removed' either way.
C5_RemovePostFrame ==
    (req.route = "/removePost" /\ ~Denied(res))
    => LET before == fsOps[1].data
           k == req.postId
           kept == {i \in 1..Len(before) : before[i].id # k}
           nth(n) == CHOOSE i \in kept : Cardinality({j \in kept : j <= i}) = n
       IN  /\ res.status = 200 /\ res.message = "Post removed"
           /\ Len(fsOps) = 2
           /\ fsOps[1] = [op |-> "read", path |-> POSTS_DB_PATH, data |-> before]
           /\ fsOps[2] = [op |-> "write", path |-> POSTS_DB_PATH, data |-> postsDb]
           /\ Len(postsDb) = Cardinality(kept)
           /\ \A n \in 1..Len(postsDb) : postsDb[n] = before[nth(n)]
           /\ ~HasId(postsDb, k)
           /\ ~HasId(before, k) => postsDb = before

\* Of two posts, the one with the requested id was removed and the other stayed.
C5_Witness ==
    /\ req.route = "/removePost" /\ res.status = 200
    /\ Len(fsOps[1].data) = 2
    /\ HasId(fsOps[1].data, req.postId)
    /\ Len(postsDb) = 1

\* C6: createPost by identity u with content c appends the one record
\* {id: n + 1, username: u, content: c} to the n records it read, leaves those
\* unchanged and returns the record with 201: id 1 on an empty collection, id 2
\* for the post after it.
C6_CreatePostAppends ==
    (req.route = "/createPost" /\ ~Denied(res))
    => LET before == fsOps[1].data
           n == Len(before)
           record == [id |-> n + 1, username |-> CarriedToken(req).username,
                      content |-> req.content]
       IN  /\ res.status = 201
           /\ res.data = <<record>>
           /\ Len(fsOps) = 2
           /\ fsOps[1] = [op |-> "read", path |-> POSTS_DB_PATH, data |-> before]
           /\ fsOps[2] = [op |-> "write", path |-> POSTS_DB_PATH, data |-> postsDb]
           /\ Len(postsDb) = n + 1
           /\ \A i \in 1..n : postsDb[i] = before[i]
           /\ postsDb[n + 1] = record

\* The second post on a collection that was empty: ids 1 and 2.
C6_Witness ==
    /\ req.route = "/createPost" /\ res.status = 201
    /\ Len(postsDb) = 2
    /\ postsDb[1].id = 1
    /\ postsDb[2].id = 2
    /\ res.data = <<postsDb[2]>>

\* C7: on a route behind verifyUser, a request with no token is answered 401,
\* a request whose token is forged, malformed or expired is answered 403, and
\* in both cases no collection is read or written; the handler runs only for a
\* token that verifies, with the token's username as the request identity.
C7_AuthInvariant ==
    req.route \in AuthRoutes
    => /\ ~CarriesToken(req) => res = Res(401, "Unauthorized", << >>, << >>) /\ fsOps = << >>
       /\ (CarriesToken(req) /\ ~CarriesValidToken(req))
            => res = Res(403, "Forbidden", << >>, << >>) /\ fsOps = << >>
       /\ CarriesValidToken(req)
            => ~Denied(res) /\ req.username = CarriedToken(req).username
       /\ (~Denied(res) \/ fsOps # << >>) => CarriesValidToken(req)

C7_AuthFrame ==
    (req'.route \in AuthRoutes /\ Denied(res'))
    => usersDb' = usersDb /\ postsDb' = postsDb

\* C7: the route's handler runs only behind a token that verifies; a missing
\* token is answered 401 and an invalid one 403, with both collections
\* neither read nor changed.
C7_AuthRequired == []C7_AuthInvariant /\ [][C7_AuthFrame]_vars

\* A token /login signed, presented after it expired, is answered 403.
C7_Witness ==
    /\ req.route \in AuthRoutes
    /\ CarriesToken(req)
    /\ CarriedToken(req).sig = SECRET_KEY
    /\ CarriedToken(req).exp <= now
    /\ res.status = 403

\* C8: a login call that finds no record for the username is answered 401
\* 'Invalid credentials' at once; one that finds a record awaits bcrypt.compare
\* on that record, and is then answered with a token bound to the username when
\* the record's hash was made from the given password, and with the same 401
\* when it was not; no login step writes a collection.
C8_LoginCall ==
    (req'.route = "/login" /\ req'.step = "call")
    => /\ ~HasUsername(usersDb, req'.username)
            => res' = Res(401, "Invalid credentials", << >>, << >>) /\ inflight' = inflight
       /\ HasUsername(usersDb, req'.username)
            => /\ res'.status = 0
               /\ \E i \in 1..Len(usersDb) :
                    /\ usersDb[i].username = req'.username
                    /\ inflight' = inflight (+) SetToBag({[kind |-> "login",
                            username |-> req'.username, password |-> req'.password,
                            users |-> <<usersDb[i]>>]})

C8_LoginResume ==
    (req'.route = "/login" /\ req'.step = "resume")
    => \E c \in BagToSet(inflight) :
          /\ c.kind = "login"
          /\ c.username = req'.username /\ c.password = req'.password
          /\ inflight' = inflight (-) SetToBag({c})
          /\ IF HashedFrom(c.users[1].password, c.password)
             THEN /\ res'.status = 200
                  /\ res'.token = <<[kind |-> "jwt", username |-> c.username,
                                     exp |-> now + ExpiresIn, sig |-> SECRET_KEY]>>
                  /\ verifyUser(<<TextWord>> \o res'.token, now).next
                  /\ verifyUser(<<TextWord>> \o res'.token, now).username = c.username
             ELSE res' = Res(401, "Invalid credentials", << >>, << >>)

C8_LoginFrame ==
    req'.route = "/login"
    => /\ usersDb' = usersDb /\ postsDb' = postsDb
       /\ \A n \in 1..Len(fsOps') : fsOps'[n].op = "read"

\* register(u, p) then login(u, p'): the login that found the record the last
\* register call wrote is answered with a token exactly when p' is p.
C8_RoundTrip ==
    (req'.route = "/login" /\ req'.step = "resume")
    => \A c \in BagToSet(inflight) :
          (/\ c.kind = "login"
           /\ c.username = req'.username /\ c.password = req'.password
           /\ inflight' = inflight (-) SetToBag({c})
           /\ Len(usersDb) > 0
           /\ c.users[1] = usersDb[Len(usersDb)]
           /\ registered.username = c.username)
          => (res'.status = 200 <=> c.password = registered.password)

\* C8: login issues a token, bound to the username, only for a record found
\* whose hash verifies the password; an absent username and a wrong password
\* get the same 401 'Invalid credentials'; login changes no collection; and
\* after register(u, p), login(u, p) yields a token for u while login(u, p')
\* with p' different from p fails.
C8_LoginUniform ==
    [][C8_LoginCall /\ C8_LoginResume /\ C8_LoginFrame /\ C8_RoundTrip]_vars

\* register(u, p) then login(u, p): the login that found the record the last
\* register call wrote, with the password of that call, is answered 200.
C8_RegisteredPasswordVerifies ==
    (req'.route = "/login" /\ req'.step = "resume")
    => \A c \in BagToSet(inflight) :
          (/\ c.kind = "login"
           /\ c.username = req'.username /\ c.password = req'.password
           /\ inflight' = inflight (-) SetToBag({c})
           /\ Len(usersDb) > 0
           /\ c.users[1] = usersDb[Len(usersDb)]
           /\ registered.username = c.username
           /\ c.password = registered.password)
          => res'.status = 200

\* The parts of C8 other than that a different password fails.
C8_LoginUpToVerification ==
    [][C8_LoginCall /\ C8_LoginResume /\ C8_LoginFrame /\ C8_RegisteredPasswordVerifies]_vars

\* Two createPost calls that reached the server before any post was written
\* and before either was dispatched, both answered.
BothAnswered ==
    /\ Len(completed) >= 2
    /\ completed[1].issuedAt = 0
    /\ completed[2].issuedAt = 0

\* C9 as claimed: two createPost calls issued simultaneously against an empty
\* collection both return id 1 and the collection holds one post.
C9_LostUpdate ==
    BothAnswered
    => /\ completed[1].res.data[1].id = 1
       /\ completed[2].res.data[1].id = 1
       /\ Len(postsDb) = 1

\* C9 as amended: of two createPost calls issued simultaneously against an
\* empty collection, the one dispatched first returns id 1 and the other id 2,
\* and the collection holds both posts; no state has two such calls both
\* answered with id 1 or one of their posts missing.
C9_NoLostUpdate ==
    BothAnswered
    => /\ completed[1].res.status = 201 /\ completed[2].res.status = 201
       /\ completed[1].res.data[1].id = 1
       /\ completed[2].res.data[1].id = 2
       /\ Len(postsDb) >= 2
       /\ postsDb[1] = completed[1].res.data[1]
       /\ postsDb[2] = completed[2].res.data[1]

C9_Witness ==
    /\ BothAnswered
    /\ Len(postsDb) = 2
    /\ postsDb[1].username # postsDb[2].username

\* C10: what removePost does to the post collection, and what it answers, is
\* the same for every verified identity: for the collection at hand and any
\* post id, and for the removePost request just served.
C10_RemoveIgnoresIdentity ==
    /\ \A u, v \in Usernames, k \in PostIds :
          /\ handleRemovePost(postsDb, u, k).posts = handleRemovePost(postsDb, v, k).posts
          /\ handleRemovePost(postsDb, u, k).res = handleRemovePost(postsDb, v, k).res
    /\ (req.route = "/removePost" /\ ~Denied(res))
        => \A v \in Usernames :
              /\ postsDb = handleRemovePost(fsOps[1].data, v, req.postId).posts
              /\ res = handleRemovePost(fsOps[1].data, v, req.postId).res

\* A verified user removed a post whose username field names another user.
C10_Witness ==
    /\ req.route = "/removePost" /\ res.status = 200
    /\ \E i \in 1..Len(fsOps[1].data) :
          /\ fsOps[1].data[i].id = req.postId
          /\ fsOps[1].data[i].username # req.username
    /\ ~HasId(postsDb, req.postId)

====
